---- MODULE Spec2Model ----
(***************************************************************************)
(* Staged object-processing pipeline: the S3 client, the NVMe staging      *)
(* area, the manifest store and the per-stage control loops (stage 1       *)
(* augment, stage 2 normalize, stage 4 inference).                         *)
(*                                                                         *)
(* Object keys are sequences of string tokens whose concatenation is the   *)
(* key: <<"images/", "a", ".jpg">> stands for "images/a.jpg".  Two keys    *)
(* are the same string exactly when their token sequences are equal.       *)
(***************************************************************************)
EXTENDS Integers, Sequences, FiniteSets, TLC

\* ------------------------------------------------------------------ bounds
MaxClock == 2
TicksPerSecond == 2
\* entries in one page of a listing
PageSize == 1
\* pieces of a NORMALIZE_SIZES string
MaxSizesLen == 5

\* ------------------------------------------------------- program constants
MinGb == 100
GiB == 1073741824

Workers == {"w1", "w2"}
DatasetId == "default"
ManifestBucket == "manifest-store"
None == [kind |-> "None", items |-> <<>>]

\* ------------------------------------------------------------ configuration
\* Stage1Config / Stage2Config / Stage4Config defaults
SourceBucket(s) ==
  CASE s = "1" -> "image-raw"
    [] s = "2" -> "image-augmented"
    [] s = "4" -> "image-inference-input"

SourcePrefix(s) ==
  CASE s = "1" -> "images/"
    [] s = "2" -> "augmented/"
    [] s = "4" -> "inference/"

DestBucket(s) ==
  CASE s = "1" -> "image-augmented"
    [] s = "2" -> "image-normalized"
    [] s = "4" -> "image-hitl"

OutputPrefix(s) ==
  CASE s = "1" -> "augmented/"
    [] s = "2" -> "normalized/"
    [] s = "4" -> "predictions/"

Buckets == {"image-raw", "image-augmented", "image-normalized",
            "image-inference-input", "image-hitl", "manifest-store"}

\* ------------------------------------------------------------------- keys
\* pathlib: Path(key).name, .stem, .suffix of a key <<..., stem, suffix>>
PathStem(k) == k[Len(k) - 1]
PathSuffix(k) == k[Len(k)]
PathName(k) == <<PathStem(k), PathSuffix(k)>>

HasPrefix(k, p) == Len(k) >= Len(p) /\ SubSeq(k, 1, Len(p)) = p

\* str.endswith((".jpg", ".png", ".jpeg"))
AcceptedExtension(k) == Len(k) > 0 /\ k[Len(k)] \in {".jpg", ".png", ".jpeg"}

\* byte order of the tokens that occur in keys
TokenOrder == << ".done", ".jpeg", ".jpg", ".json", ".png", ".txt",
                 "/", "/stage_", "0", "1", "1080p", "2", "3", "4", "720p",
                 "_", "_aug", "_predictions",
                 "a", "augmented/", "b", "default", "hitl/", "images/",
                 "inference/", "manifests/", "normalized/", "notes",
                 "predictions/", "processed/", "sub/" >>

Rank(t) == CHOOSE i \in 1..Len(TokenOrder) : TokenOrder[i] = t

RECURSIVE KeyLeq(_, _)
KeyLeq(a, b) ==
  IF a = <<>> THEN TRUE
  ELSE IF b = <<>> THEN FALSE
  ELSE IF Head(a) = Head(b) THEN KeyLeq(Tail(a), Tail(b))
  ELSE Rank(Head(a)) < Rank(Head(b))

RECURSIVE SortKeys(_)
SortKeys(S) ==
  IF S = {} THEN <<>>
  ELSE LET m == CHOOSE x \in S : \A y \in S : KeyLeq(x, y)
       IN <<m>> \o SortKeys(S \ {m})

Range(f) == { f[i] : i \in DOMAIN f }

\* the objects a producer may have placed under a stage's source prefix
KeyA(s) == <<SourcePrefix(s), "a", ".jpg">>
KeyB(s) == <<SourcePrefix(s), "b", ".png">>
KeyNotes(s) == <<SourcePrefix(s), "notes", ".txt">>
\* an object with the file name of KeyA one level below the source prefix
KeySubA(s) == <<SourcePrefix(s), "sub/", "a", ".jpg">>

SourceOptions(s) ==
  { {}, {KeyNotes(s)}, {KeyA(s), KeyB(s)}, {KeyA(s), KeyNotes(s)} }

\* --------------------------------------------------------------- S3Client
\* a bucket is a function from key to [Body, LastModified]
EmptyBucket == [k \in {} |-> [Body |-> <<>>, LastModified |-> 0]]

KeysOf(store, bucket) == DOMAIN store[bucket]

\* LastModified is the time of the write for manifest objects, the only ones
\* whose LastModified the program reads (get_latest_manifest); it is not
\* tracked (0) for the others
Stamp(key, t) == IF Head(key) = "manifests/" THEN t ELSE 0

put_object(store, bucket, key, body, t) ==
  [store EXCEPT ![bucket] =
     (key :> [Body |-> body, LastModified |-> Stamp(key, t)]) @@ @]

get_object(store, bucket, key) == store[bucket][key].Body

\* upload_file stores the local file's content under the key
upload_file(store, bucket, key, body, t) == put_object(store, bucket, key, body, t)

\* list_objects_v2 through the paginator: every entry under the prefix, in key order
list_objects(store, bucket, prefix) ==
  LET ks == SortKeys({ k \in KeysOf(store, bucket) : HasPrefix(k, prefix) })
  IN [i \in 1..Len(ks) |->
        [Key |-> ks[i], LastModified |-> store[bucket][ks[i]].LastModified]]

\* the list_objects_v2 requests the paginator sends for a listing: one per
\* page, and one for an empty listing
list_objects_requests(store, bucket, prefix) ==
  LET n == Cardinality({ k \in KeysOf(store, bucket) : HasPrefix(k, prefix) })
      pages == IF n = 0 THEN 1 ELSE (n + PageSize - 1) \div PageSize
  IN [i \in 1..pages |-> [op |-> "list_objects_v2", bucket |-> bucket, prefix |-> prefix]]

\* client.head_object: the response, or the exception it raises: ClientError
\* for a missing key (404) and for any other error answer of the store, another
\* exception when the store is not reached
head_object(store, bucket, key, fault) ==
  IF fault # "none" THEN [raised |-> fault]
  ELSE IF key \in KeysOf(store, bucket) THEN [raised |-> "none"]
  ELSE [raised |-> "ClientError"]

\* try: head_object; return True / except ClientError: return False
object_exists(store, bucket, key, fault) ==
  LET response == head_object(store, bucket, key, fault)
  IN IF response.raised = "none" THEN [raised |-> "none", value |-> TRUE]
     ELSE IF response.raised = "ClientError" THEN [raised |-> "none", value |-> FALSE]
     ELSE [raised |-> response.raised, value |-> FALSE]

\* ----------------------------------------------------------- ManifestStore
MarkerKey(d, s, k) == <<"processed/", d, "/stage_", s, "/">> \o k \o <<".done">>

\* true as soon as any marker exists under the (dataset, stage) prefix
is_processed_any(store, d, s, object_key) ==
  LET prefix == <<"processed/", d, "/stage_", s, "/">>
      objects == list_objects(store, ManifestBucket, prefix)
  IN Len(objects) > 0

\* lists the marker prefix and looks for object_key among the listed keys
is_processed(store, d, s, object_key) ==
  LET prefix == <<"processed/", d, "/stage_", s, "/">>
      objects == list_objects(store, ManifestBucket, prefix)
      processed_keys == [i \in 1..Len(objects) |-> objects[i].Key]
  IN object_key \in Range(processed_keys)

\* a marker per attempt: a second object when the marker is already there
mark_processed_again(store, d, s, object_key, t) ==
  IF MarkerKey(d, s, object_key) \in KeysOf(store, ManifestBucket)
  THEN put_object(store, ManifestBucket,
                  <<"processed/", d, "/stage_", s, "/">> \o object_key \o <<"_", ".done">>,
                  <<>>, t)
  ELSE put_object(store, ManifestBucket, MarkerKey(d, s, object_key), <<>>, t)

mark_processed(store, d, s, object_key, t) ==
  put_object(store, ManifestBucket, MarkerKey(d, s, object_key), <<>>, t)

\* strftime('%Y%m%d_%H%M%S'): the wall clock truncated to whole seconds
Timestamp(t) == ToString(t \div TicksPerSecond)

ManifestKey(d, s, t) == <<"manifests/", d, "/stage_", s, "/", Timestamp(t), ".json">>

\* json.dumps(...).encode() and json.loads: the manifest holds strings,
\* integers and lists of such dicts, which the encoding gives back unchanged
json_dumps(value) == [json |-> value]
json_loads(content) == content.json

\* the manifest and its key carry the clock value read by datetime.utcnow();
\* the store sets LastModified when the object is written, at time t
publish_manifest(store, d, s, objects, clock, t) ==
  LET manifest == [dataset_id |-> d, stage |-> s, timestamp |-> clock,
                   object_count |-> Len(objects), objects |-> objects]
  IN put_object(store, ManifestBucket, ManifestKey(d, s, clock), json_dumps(manifest), t)

\* the locator of the marker prefix instead of the manifest's
publish_manifest_uri_prefix(d, s, clock) ==
  <<"s3://", ManifestBucket, "/", "manifests/", d, "/stage_", s, "/">>

\* return f"s3://{self.bucket}/{key}"
publish_manifest_uri(d, s, clock) ==
  <<"s3://", ManifestBucket, "/">> \o ManifestKey(d, s, clock)

\* the store requests of publish_manifest: self.s3.put_object(self.bucket, key, ...)
publish_manifest_requests(d, s, clock) ==
  << [op |-> "put_object", bucket |-> ManifestBucket, key |-> ManifestKey(d, s, clock)] >>

\* the store requests of is_processed: self.s3.list_objects(self.bucket, prefix)
is_processed_requests(store, d, s, object_key) ==
  list_objects_requests(store, ManifestBucket, <<"processed/", d, "/stage_", s, "/">>)

ManifestPrefix(d, s) == <<"manifests/", d, "/stage_", s, "/">>

\* sorted(objects, key=LastModified, reverse=True)[0]: the sort is stable, so
\* this is the first listed object among those with the greatest LastModified
get_latest_manifest(store, d, s) ==
  LET objects == list_objects(store, ManifestBucket, ManifestPrefix(d, s))
      i == CHOOSE i \in 1..Len(objects) :
             /\ \A j \in 1..Len(objects) :
                  objects[i].LastModified >= objects[j].LastModified
             /\ \A j \in 1..(i - 1) :
                  objects[j].LastModified # objects[i].LastModified
  IN IF Len(objects) = 0 THEN None
     ELSE json_loads(get_object(store, ManifestBucket, objects[i].Key))

\* ------------------------------------------------------------- NVMeStaging
\* shutil.disk_usage: free bytes = q * GiB + r with 0 <= r < GiB
get_disk_usage(d) == [free_gb_whole |-> d.q, free_gb_frac |-> d.r]

\* the comparison written as > instead of >=
check_capacity_strict(d, floor) ==
  LET usage == get_disk_usage(d)
  IN \/ usage.free_gb_whole > floor
     \/ usage.free_gb_whole = floor /\ usage.free_gb_frac > 0

\* usage["free_gb"] >= min_gb, for a whole number of GiB as the floor
check_capacity(d, floor) ==
  LET usage == get_disk_usage(d)
  IN \/ usage.free_gb_whole > floor
     \/ usage.free_gb_whole = floor /\ usage.free_gb_frac >= 0

EmptyStaging == [input |-> {}, work |-> {}, output |-> {}, cache |-> {}]

\* ------------------------------------------------- stage bodies' outputs
\* one entry per file the attempt uploads: the staging role and name of the
\* local file, and the destination bucket and key
\* the augmented image uploaded next to its source
Plan1_in_place(k) ==
  LET output_filename == <<PathStem(k), "_aug", PathSuffix(k)>>
  IN << [role |-> "output", file |-> output_filename,
         bucket |-> SourceBucket("1"),
         key |-> <<SourcePrefix("1")>> \o output_filename] >>

Plan1(k) ==
  LET output_filename == <<PathStem(k), "_aug", PathSuffix(k)>>
  IN << [role |-> "output", file |-> output_filename,
         bucket |-> DestBucket("1"),
         key |-> <<OutputPrefix("1")>> \o output_filename] >>

Plan2(k, sizes) ==
  [i \in 1..Len(sizes) |->
     LET variant_filename == <<PathStem(k), "_", sizes[i], PathSuffix(k)>>
     IN [role |-> "output", file |-> variant_filename,
         bucket |-> DestBucket("2"),
         key |-> <<OutputPrefix("2"), sizes[i], "/">> \o variant_filename]]

Plan4(k) ==
  LET annotation_filename == <<PathStem(k), "_predictions", ".json">>
  IN << [role |-> "output", file |-> annotation_filename,
         bucket |-> DestBucket("4"),
         key |-> <<OutputPrefix("4")>> \o annotation_filename],
        [role |-> "input", file |-> PathName(k),
         bucket |-> DestBucket("4"),
         key |-> <<"hitl/">> \o PathName(k)] >>

OutputPlan(s, k, sizes) ==
  CASE s = "1" -> Plan1(k)
    [] s = "2" -> Plan2(k, sizes)
    [] s = "4" -> Plan4(k)

OutputKeys(s, k, sizes) ==
  { OutputPlan(s, k, sizes)[i].key : i \in 1..Len(OutputPlan(s, k, sizes)) }

Descriptor(s, k, task) ==
  [source_uri |-> <<SourceBucket(s), k>>, output_uri |-> <<task.bucket, task.key>>]

\* every return value taken as true
TruthyAlways(r) == TRUE

\* Python truth value of process_object's return value: None and [] are
\* false, a dict with entries and a non-empty list are true
Truthy(r) == r.kind # "None" /\ Len(r.items) > 0

\* new_objects built from the end of the listing
NewObjects1_reversed(objects, seen) ==
  LET Keep(obj) == obj.Key \notin seen /\ AcceptedExtension(obj.Key)
      kept == SelectSeq(objects, Keep)
  IN [i \in 1..Len(kept) |-> kept[Len(kept) + 1 - i].Key]

\* new_objects holding every kept key twice
NewObjects2_twice(objects) ==
  LET Keep(obj) == AcceptedExtension(obj.Key)
      kept == SelectSeq(objects, Keep)
  IN [i \in 1..(2 * Len(kept)) |-> kept[((i - 1) % Len(kept)) + 1].Key]

\* the comprehension that builds new_objects in poll_for_work
NewObjects1(objects, seen) ==
  LET Keep(obj) == obj.Key \notin seen /\ AcceptedExtension(obj.Key)
      kept == SelectSeq(objects, Keep)
  IN [i \in 1..Len(kept) |-> kept[i].Key]

NewObjects2(objects) ==
  LET Keep(obj) == AcceptedExtension(obj.Key)
      kept == SelectSeq(objects, Keep)
  IN [i \in 1..Len(kept) |-> kept[i].Key]

NewObjects(s, objects, seen) ==
  IF s = "1" THEN NewObjects1(objects, seen) ELSE NewObjects2(objects)

\* ------------------------------------------------------------------ state
VARIABLES
  s3,             \* bucket -> key -> [Body, LastModified]
  now,            \* wall clock, in ticks
  disk,           \* free bytes of the staging volume: [q, r], q * GiB + r
  min_gb,         \* NVMeConfig.min_gb, the configured floor in GiB
  checked,        \* the last check_capacity() call: [called, disk, floor, result]
  config,         \* worker -> [stage, mode, sizes, keys]
  pc,             \* worker -> position in poll_for_work / run_once
  exit,           \* worker -> how the last process of the worker ended
  processed_keys, \* worker -> the seen set of stage 1's poll loop
  new_objects,    \* worker -> keys of the current cycle / batch
  idx,            \* worker -> position of the loop in new_objects
  cur,            \* worker -> s3_key of the attempt
  vidx,           \* worker -> position in the attempt's output plan
  results,        \* worker -> descriptors collected by the attempt
  result,         \* worker -> what process_object returned
  all_results,    \* worker -> what run_once has collected
  nvme,           \* worker -> role -> files in the staging directory
  crashed,        \* worker -> key killed between upload and marker (history)
  failed,         \* worker -> keys whose last attempt in this process failed (history)
  objects_processed, \* worker -> pipeline_objects_processed_total{status="success"}
  utcnow,         \* worker -> the clock value publish_manifest has read
  stage_duration, \* worker -> observations of pipeline_stage_duration_seconds
  objects_failed, \* worker -> pipeline_objects_failed_total
  call,           \* the last library call of a test: its arguments and outcome
  fs              \* the staging root of a test: role -> directory content

vars == <<s3, now, disk, min_gb, checked, config, pc, exit, processed_keys, new_objects, idx,
          cur, vidx, results, result, all_results, nvme, crashed, failed, objects_processed, utcnow,
                 stage_duration, objects_failed, call, fs>>

NoKey == <<>>
NoTime == -1
NoCall == [op |-> "none"]
Roles == {"input", "work", "output", "cache"}
\* a staging root as the constructor leaves a fresh one: four empty directories
BuiltRoot == [r \in Roles |-> [present |-> TRUE, files |-> {}, subdirs |-> {}]]
NoCheck == [called |-> FALSE, disk |-> [q |-> 0, r |-> 0], floor |-> 0,
            result |-> FALSE]

\* free space just below the floor and exactly at the floor
BelowFloor == [q |-> MinGb - 1, r |-> GiB - 1]
AtFloor == [q |-> MinGb, r |-> 0]
DiskSamples == { BelowFloor, AtFloor }

StageOf(w) == config[w].stage
Poll(w) == config[w].mode = "poll"
Batch(w) == config[w].mode = "once"
Running(w) == pc[w] \notin {"off", "stopped"}
InAttempt(w) == pc[w] \in {"download", "body", "write", "upload", "success", "except"}
\* a second upload of an output goes to a new key beside the first
TaskOf_again(w) ==
  LET task == OutputPlan(StageOf(w), cur[w], config[w].sizes)[vidx[w]]
  IN IF task.key \in KeysOf(s3, task.bucket)
     THEN [task EXCEPT !.key = @ \o <<"_">>]
     ELSE task

TaskOf(w) == OutputPlan(StageOf(w), cur[w], config[w].sizes)[vidx[w]]

Configs ==
  { [stage |-> "1", mode |-> m, sizes |-> <<>>, keys |-> ks] :
      m \in {"poll"}, ks \in {<<>>} }
  \cup { [stage |-> "1", mode |-> "once", sizes |-> <<>>, keys |-> ks] :
      ks \in { <<KeyA("1")>>, <<KeyA("1"), KeyB("1")>> } }
  \cup { [stage |-> "2", mode |-> "poll", sizes |-> sz, keys |-> <<>>] :
      sz \in { <<>>, <<"1080p", "720p">> } }
  \cup { [stage |-> "2", mode |-> "once", sizes |-> sz, keys |-> ks] :
      sz \in { <<"720p">> }, ks \in { <<KeyA("2"), KeyB("2")>> } }
  \cup { [stage |-> "4", mode |-> "poll", sizes |-> <<>>, keys |-> <<>>] }

Off == [stage |-> "1", mode |-> "off", sizes |-> <<>>, keys |-> <<>>]

\* the process as main() starts it: poll_for_work or run_once(args.keys)
Entry(c) == IF c.mode = "poll" THEN "list" ELSE "loop"

SeedStore(s, src) ==
  [b \in Buckets |->
     IF b = SourceBucket(s)
     THEN [k \in src |-> [Body |-> k, LastModified |-> 0]]
     ELSE EmptyBucket]

Init ==
  /\ \E c \in Configs : \E src \in SourceOptions(c.stage) :
       /\ config = [w \in Workers |-> IF w = "w1" THEN c ELSE Off]
       /\ s3 = SeedStore(c.stage, src)
       /\ pc = [w \in Workers |-> IF w = "w1" THEN Entry(c) ELSE "off"]
       /\ new_objects = [w \in Workers |-> IF w = "w1" THEN c.keys ELSE <<>>]
  /\ now = 0
  /\ disk = AtFloor
  /\ min_gb = MinGb
  /\ checked = NoCheck
  /\ exit = [w \in Workers |-> "none"]
  /\ processed_keys = [w \in Workers |-> {}]
  /\ idx = [w \in Workers |-> 1]
  /\ cur = [w \in Workers |-> NoKey]
  /\ vidx = [w \in Workers |-> 1]
  /\ results = [w \in Workers |-> <<>>]
  /\ result = [w \in Workers |-> None]
  /\ all_results = [w \in Workers |-> <<>>]
  /\ nvme = [w \in Workers |-> EmptyStaging]
  /\ crashed = [w \in Workers |-> NoKey]
  /\ failed = [w \in Workers |-> {}]
  /\ objects_processed = [w \in Workers |-> 0]
  /\ utcnow = [w \in Workers |-> NoTime]
  /\ stage_duration = [w \in Workers |-> 0]
  /\ objects_failed = [w \in Workers |-> 0]
  /\ call = NoCall
  /\ fs = BuiltRoot

\* between the last upload of the attempt and the marker write
InWindow(w) ==
  /\ \/ pc[w] \in {"success", "publish", "put", "mark"}
     \/ pc[w] = "after" /\ Truthy(result[w])
  /\ Len(OutputPlan(StageOf(w), cur[w], config[w].sizes)) > 0

\* the process ends and its memory is gone; the staging directory stays
Stop(w, how) ==
  /\ pc' = [pc EXCEPT ![w] = "stopped"]
  /\ exit' = [exit EXCEPT ![w] = how]
  /\ processed_keys' = [processed_keys EXCEPT ![w] = {}]
  /\ new_objects' = [new_objects EXCEPT ![w] = <<>>]
  /\ idx' = [idx EXCEPT ![w] = 1]
  /\ cur' = [cur EXCEPT ![w] = NoKey]
  /\ vidx' = [vidx EXCEPT ![w] = 1]
  /\ results' = [results EXCEPT ![w] = <<>>]
  /\ result' = [result EXCEPT ![w] = None]
  /\ all_results' = [all_results EXCEPT ![w] = <<>>]
  /\ failed' = [failed EXCEPT ![w] = {}]
  /\ objects_processed' = [objects_processed EXCEPT ![w] = 0]
  /\ utcnow' = [utcnow EXCEPT ![w] = NoTime]
  /\ stage_duration' = [stage_duration EXCEPT ![w] = 0]
  /\ objects_failed' = [objects_failed EXCEPT ![w] = 0]
  /\ crashed' = [crashed EXCEPT ![w] = IF Poll(w) /\ InWindow(w) THEN cur[w] ELSE @]
  /\ UNCHANGED <<s3, now, disk, min_gb, checked, config, nvme, call, fs>>

\* the exception is swallowed and the for loop goes on
Raise_swallowed(w) ==
  /\ pc' = [pc EXCEPT ![w] = "loop"]
  /\ UNCHANGED <<s3, now, disk, min_gb, checked, config, exit, processed_keys,
                 new_objects, idx, cur, vidx, results, result, all_results,
                 nvme, crashed, failed, objects_processed, utcnow,
                 stage_duration, objects_failed, call, fs>>

\* an exception leaves poll_for_work / run_once
Raise(w) == Stop(w, "raised")

\* --------------------------------------------------------------- poll loop
\* list the source prefix and build new_objects
PollList(w) ==
  /\ pc[w] = "list" /\ Poll(w)
  /\ \/ /\ LET objects == list_objects(s3, SourceBucket(StageOf(w)),
                                       <<SourcePrefix(StageOf(w))>>)
           IN new_objects' = [new_objects EXCEPT ![w] =
                                NewObjects(StageOf(w), objects, processed_keys[w])]
        /\ idx' = [idx EXCEPT ![w] = 1]
        /\ pc' = [pc EXCEPT ![w] = "loop"]
        /\ UNCHANGED <<s3, now, disk, min_gb, checked, config, exit, processed_keys, cur, vidx,
                       results, result, all_results, nvme, crashed, failed, objects_processed, utcnow,
                 stage_duration, objects_failed, call, fs>>
     \/ Raise(w)

\* the for loop is exhausted: poll mode sleeps, run_once returns
CycleEnd(w) ==
  /\ pc[w] = "loop" /\ idx[w] > Len(new_objects[w])
  /\ IF Poll(w)
     THEN pc' = [pc EXCEPT ![w] = "sleep"] /\ UNCHANGED exit
     ELSE pc' = [pc EXCEPT ![w] = "stopped"] /\ exit' = [exit EXCEPT ![w] = "returned"]
  /\ UNCHANGED <<s3, now, disk, min_gb, checked, config, processed_keys, new_objects, idx, cur,
                 vidx, results, result, all_results, nvme, crashed, failed, objects_processed, utcnow,
                 stage_duration, objects_failed, call, fs>>

\* process_object is entered: start_time, local_input
Enter(w, k) ==
  /\ pc' = [pc EXCEPT ![w] = "download"]
  /\ cur' = [cur EXCEPT ![w] = k]
  /\ vidx' = [vidx EXCEPT ![w] = 1]
  /\ results' = [results EXCEPT ![w] = <<>>]
  /\ UNCHANGED <<s3, now, disk, min_gb, checked, config, exit, processed_keys, new_objects, idx,
                 result, all_results, nvme, crashed, failed, objects_processed, utcnow,
                 stage_duration, objects_failed, call, fs>>

\* stage 1 and 2, poll mode: if not is_processed(...): process_object(...)
CheckProcessed(w) ==
  /\ pc[w] = "loop" /\ idx[w] <= Len(new_objects[w])
  /\ Poll(w) /\ StageOf(w) \in {"1", "2"}
  /\ LET k == new_objects[w][idx[w]] IN
       \/ /\ ~is_processed(s3, DatasetId, StageOf(w), k)
          /\ Enter(w, k)
       \/ /\ is_processed(s3, DatasetId, StageOf(w), k)
          /\ idx' = [idx EXCEPT ![w] = @ + 1]
          /\ UNCHANGED <<s3, now, disk, min_gb, checked, config, pc, exit, processed_keys,
                         new_objects, cur, vidx, results, result, all_results,
                         nvme, crashed, failed, objects_processed, utcnow,
                 stage_duration, objects_failed, call, fs>>
       \/ Raise(w)

\* stage 4 poll loop and run_once call process_object for every key
CallProcess(w) ==
  /\ pc[w] = "loop" /\ idx[w] <= Len(new_objects[w])
  /\ Batch(w) \/ StageOf(w) = "4"
  /\ Enter(w, new_objects[w][idx[w]])

\* --------------------------------------------------------- process_object
\* a step of the try block raised: control goes to the except clause
ToExcept(w) ==
  /\ pc' = [pc EXCEPT ![w] = "except"]
  /\ UNCHANGED <<s3, now, disk, min_gb, checked, config, exit, processed_keys, new_objects, idx,
                 cur, vidx, results, result, all_results, nvme, crashed, failed, objects_processed, utcnow,
                 stage_duration, objects_failed, call, fs>>

\* s3_client.download_file(source bucket, s3_key, local_input)
Download(w) ==
  /\ pc[w] = "download"
  /\ \/ /\ cur[w] \in KeysOf(s3, SourceBucket(StageOf(w)))
        /\ nvme' = [nvme EXCEPT ![w].input = @ \cup {PathName(cur[w])}]
        /\ pc' = [pc EXCEPT ![w] = "body"]
        /\ UNCHANGED <<s3, now, disk, min_gb, checked, config, exit, processed_keys, new_objects,
                       idx, cur, vidx, results, result, all_results, crashed, failed, objects_processed, utcnow,
                 stage_duration, objects_failed, call, fs>>
     \/ ToExcept(w)

\* the image is read and transformed (the external stage body)
Body(w) ==
  /\ pc[w] = "body"
  /\ \/ /\ pc' = [pc EXCEPT ![w] =
                    IF Len(OutputPlan(StageOf(w), cur[w], config[w].sizes)) = 0
                    THEN "success" ELSE "write"]
        /\ UNCHANGED <<s3, now, disk, min_gb, checked, config, exit, processed_keys, new_objects,
                       idx, cur, vidx, results, result, all_results, nvme,
                       crashed, failed, objects_processed, utcnow,
                 stage_duration, objects_failed, call, fs>>
     \/ ToExcept(w)

\* the output file of the current plan entry is written under output/
WriteOutput(w) ==
  /\ pc[w] = "write"
  /\ \/ /\ nvme' = [nvme EXCEPT ![w].output = @ \cup {TaskOf(w).file}]
        /\ pc' = [pc EXCEPT ![w] = "upload"]
        /\ UNCHANGED <<s3, now, disk, min_gb, checked, config, exit, processed_keys, new_objects,
                       idx, cur, vidx, results, result, all_results, crashed, failed, objects_processed, utcnow,
                 stage_duration, objects_failed, call, fs>>
     \/ ToExcept(w)

\* s3_client.upload_file(local file, destination bucket, key)
Upload(w) ==
  /\ pc[w] = "upload"
  /\ \/ LET plan == OutputPlan(StageOf(w), cur[w], config[w].sizes)
            task == TaskOf(w)
        IN /\ s3' = upload_file(s3, task.bucket, task.key, cur[w], now)
           /\ results' = [results EXCEPT ![w] =
                            Append(@, Descriptor(StageOf(w), cur[w], task))]
           /\ vidx' = [vidx EXCEPT ![w] = @ + 1]
           /\ pc' = [pc EXCEPT ![w] =
                       IF vidx[w] + 1 > Len(plan) THEN "success"
                       ELSE IF plan[vidx[w] + 1].role = "input" THEN "upload"
                       ELSE "write"]
           /\ UNCHANGED <<now, disk, min_gb, checked, config, exit, processed_keys, new_objects,
                          idx, cur, result, all_results, nvme, crashed, failed, objects_processed, utcnow,
                 stage_duration, objects_failed, call, fs>>
     \/ ToExcept(w)

\* PipelineMetrics: the registry exists, so each call observes / increments
record_duration(observations) == observations + 1
record_processed(count) == count + 1

\* the failure not counted
record_failed_skipped(count) == count

record_failed(count) == count + 1

\* the staged file left in place
UnlinkKeep(files, name) == files

\* finally: if local_input.exists(): local_input.unlink()
Unlink(files, name) == files \ {name}

\* the value a successful attempt returns: a dict in stage 1 and 4, the
\* list of variant descriptors in stage 2
OkResult(s, descriptors) ==
  IF s = "2" THEN [kind |-> "list", items |-> descriptors]
  ELSE [kind |-> "dict", items |-> descriptors]

\* the except clause returning an error descriptor instead of None / []
FailResultDescriptor(s) ==
  [kind |-> IF s = "2" THEN "list" ELSE "dict", items |-> << [error |-> "failed"] >>]

\* the value the except clause returns: None in stage 1 and 4, [] in stage 2
FailResult(s) ==
  IF s = "2" THEN [kind |-> "list", items |-> <<>>] ELSE None

\* the try block ran to its end: metrics, return result, finally
Success(w) ==
  /\ pc[w] = "success"
  /\ result' = [result EXCEPT ![w] = OkResult(StageOf(w), results[w])]
  /\ nvme' = [nvme EXCEPT ![w].input = Unlink(@, PathName(cur[w]))]
  /\ pc' = [pc EXCEPT ![w] = "after"]
  /\ failed' = [failed EXCEPT ![w] = @ \ {cur[w]}]
  /\ stage_duration' = [stage_duration EXCEPT ![w] = record_duration(@)]
  /\ objects_processed' = [objects_processed EXCEPT ![w] = record_processed(@)]
  /\ UNCHANGED <<utcnow, objects_failed, call, fs>>
  /\ crashed' = [crashed EXCEPT ![w] = IF @ = cur[w] THEN NoKey ELSE @]
  /\ UNCHANGED <<s3, now, disk, min_gb, checked, config, exit, processed_keys, new_objects, idx,
                 cur, vidx, results, all_results>>

\* except Exception: metrics, return None / [], finally
Except(w) ==
  /\ pc[w] = "except"
  /\ result' = [result EXCEPT ![w] = FailResult(StageOf(w))]
  /\ nvme' = [nvme EXCEPT ![w].input = Unlink(@, PathName(cur[w]))]
  /\ pc' = [pc EXCEPT ![w] = "after"]
  /\ failed' = [failed EXCEPT ![w] = @ \cup {cur[w]}]
  /\ stage_duration' = [stage_duration EXCEPT ![w] = record_duration(@)]
  /\ objects_failed' = [objects_failed EXCEPT ![w] = record_failed(@)]
  /\ UNCHANGED <<objects_processed, utcnow, call, fs>>
  /\ crashed' = [crashed EXCEPT ![w] = IF @ = cur[w] THEN NoKey ELSE @]
  /\ UNCHANGED <<s3, now, disk, min_gb, checked, config, exit, processed_keys, new_objects, idx,
                 cur, vidx, results, all_results>>

\* ------------------------------------------- the loop body after the call
\* the seen set of stage 1's poll loop: processed_keys.add(s3_key)
SeenAdd(w, seen, k) ==
  IF Poll(w) /\ StageOf(w) = "1" THEN seen \cup {k} ELSE seen

\* if result: / if results:
AfterAttempt(w) ==
  /\ pc[w] = "after"
  /\ IF StageOf(w) # "4" /\ Truthy(result[w])
     THEN /\ pc' = [pc EXCEPT ![w] = IF StageOf(w) = "2" THEN "publish" ELSE "mark"]
          /\ all_results' = [all_results EXCEPT ![w] =
                               IF Batch(w) THEN @ \o result[w].items ELSE @]
          /\ UNCHANGED <<processed_keys, idx>>
     ELSE /\ pc' = [pc EXCEPT ![w] = "loop"]
          /\ processed_keys' = [processed_keys EXCEPT ![w] = SeenAdd(w, @, cur[w])]
          /\ idx' = [idx EXCEPT ![w] = @ + 1]
          /\ UNCHANGED all_results
  /\ UNCHANGED <<s3, now, disk, min_gb, checked, config, exit, new_objects, cur, vidx, results,
                 result, nvme, crashed, failed, objects_processed, utcnow,
                 stage_duration, objects_failed, call, fs>>

\* stage 2: manifest_store.publish_manifest(dataset_id, 2, results) builds
\* the manifest and its key from datetime.utcnow()
PublishClock(w) ==
  /\ pc[w] = "publish"
  /\ utcnow' = [utcnow EXCEPT ![w] = now]
  /\ pc' = [pc EXCEPT ![w] = "put"]
  /\ UNCHANGED <<s3, now, disk, min_gb, checked, config, exit, processed_keys, new_objects, idx,
                 cur, vidx, results, result, all_results, nvme, crashed, failed,
                 objects_processed,
                 stage_duration, objects_failed, call, fs>>

\* publish_manifest returning without a write
Publish_skipped(w) ==
  /\ pc[w] = "put"
  /\ pc' = [pc EXCEPT ![w] = "mark"]
  /\ utcnow' = [utcnow EXCEPT ![w] = NoTime]
  /\ UNCHANGED <<s3, now, disk, min_gb, checked, config, exit, processed_keys,
                 new_objects, idx, cur, vidx, results, result, all_results,
                 nvme, crashed, failed, objects_processed,
                 stage_duration, objects_failed, call, fs>>

\* publish_manifest writes the manifest: self.s3.put_object(bucket, key, ...)
Publish(w) ==
  /\ pc[w] = "put"
  /\ \/ /\ s3' = publish_manifest(s3, DatasetId, StageOf(w), result[w].items,
                                   utcnow[w], now)
        /\ pc' = [pc EXCEPT ![w] = "mark"]
        /\ utcnow' = [utcnow EXCEPT ![w] = NoTime]
        /\ UNCHANGED <<now, disk, min_gb, checked, config, exit, processed_keys, new_objects, idx,
                       cur, vidx, results, result, all_results, nvme, crashed, failed,
                       objects_processed,
                 stage_duration, objects_failed, call, fs>>
     \/ Raise(w)

\* manifest_store.mark_processed(dataset_id, stage, s3_key)
Mark(w) ==
  /\ pc[w] = "mark"
  /\ \/ /\ s3' = mark_processed(s3, DatasetId, StageOf(w), cur[w], now)
        /\ processed_keys' = [processed_keys EXCEPT ![w] = SeenAdd(w, @, cur[w])]
        /\ idx' = [idx EXCEPT ![w] = @ + 1]
        /\ pc' = [pc EXCEPT ![w] = "loop"]
        /\ UNCHANGED <<now, disk, min_gb, checked, config, exit, new_objects, cur, vidx, results,
                       result, all_results, nvme, crashed, failed, objects_processed, utcnow,
                 stage_duration, objects_failed, call, fs>>
     \/ Raise(w)

\* time.sleep(self.config.poll_interval) in stage 1; stage 2 and 4 read
\* self.poll_interval, which the processor does not have: AttributeError
Sleep(w) ==
  /\ pc[w] = "sleep"
  /\ IF StageOf(w) = "1"
     THEN /\ pc' = [pc EXCEPT ![w] = "list"]
          /\ UNCHANGED <<s3, now, disk, min_gb, checked, config, exit, processed_keys, new_objects,
                         idx, cur, vidx, results, result, all_results, nvme,
                         crashed, failed, objects_processed, utcnow,
                 stage_duration, objects_failed, call, fs>>
     ELSE Raise(w)

\* ------------------------------------------------------------- environment
\* the process is terminated from outside
Kill(w) == Running(w) /\ Stop(w, "killed")

\* the process is started again: main() builds the processor and enters the loop
Restart(w) ==
  /\ pc[w] = "stopped"
  /\ pc' = [pc EXCEPT ![w] = Entry(config[w])]
  /\ new_objects' = [new_objects EXCEPT ![w] = config[w].keys]
  /\ all_results' = [all_results EXCEPT ![w] = <<>>]
  /\ UNCHANGED <<s3, now, disk, min_gb, checked, config, exit, processed_keys, idx, cur, vidx,
                 results, result, nvme, crashed, failed, objects_processed, utcnow,
                 stage_duration, objects_failed, call, fs>>

\* the wall clock advances, in units of the resolution of LastModified; the
\* program reads it in publish_manifest only and the store stamps the manifest
\* with it, so time is let pass only before one of the two
Tick ==
  /\ now < MaxClock
  /\ \E w \in Workers : pc[w] \in {"publish", "put"}
  /\ now' = now + 1
  /\ UNCHANGED <<s3, disk, min_gb, checked, config, pc, exit, processed_keys, new_objects, idx,
                 cur, vidx, results, result, all_results, nvme, crashed, failed, objects_processed, utcnow,
                 stage_duration, objects_failed, call, fs>>

DiskChange ==
  /\ disk' \in DiskSamples \ {disk}
  /\ UNCHANGED <<s3, now, min_gb, checked, config, pc, exit, processed_keys, new_objects, idx,
                 cur, vidx, results, result, all_results, nvme, crashed, failed, objects_processed, utcnow,
                 stage_duration, objects_failed, call, fs>>

Next ==
  \/ \E w \in Workers :
       \/ PollList(w) \/ CycleEnd(w) \/ CheckProcessed(w) \/ CallProcess(w)
       \/ Download(w) \/ Body(w) \/ WriteOutput(w) \/ Upload(w)
       \/ Success(w) \/ Except(w) \/ AfterAttempt(w) \/ PublishClock(w)
       \/ Publish(w) \/ Mark(w)
       \/ Sleep(w) \/ Kill(w) \/ Restart(w)
  \/ Tick
  \/ DiskChange

Spec == Init /\ [][Next]_vars

\* ----------------------------- a source prefix with a sub-prefix
\* the source prefix holds a.jpg and sub/a.jpg; the paginator lists both,
\* since list_objects sets no delimiter
InitSub ==
  /\ \E c \in Configs :
       /\ config = [w \in Workers |-> IF w = "w1" THEN c ELSE Off]
       /\ s3 = SeedStore(c.stage, {KeyA(c.stage), KeySubA(c.stage)})
       /\ pc = [w \in Workers |-> IF w = "w1" THEN Entry(c) ELSE "off"]
       /\ new_objects = [w \in Workers |-> IF w = "w1" THEN c.keys ELSE <<>>]
  /\ now = 0
  /\ disk = AtFloor
  /\ min_gb = MinGb
  /\ checked = NoCheck
  /\ exit = [w \in Workers |-> "none"]
  /\ processed_keys = [w \in Workers |-> {}]
  /\ idx = [w \in Workers |-> 1]
  /\ cur = [w \in Workers |-> NoKey]
  /\ vidx = [w \in Workers |-> 1]
  /\ results = [w \in Workers |-> <<>>]
  /\ result = [w \in Workers |-> None]
  /\ all_results = [w \in Workers |-> <<>>]
  /\ nvme = [w \in Workers |-> EmptyStaging]
  /\ crashed = [w \in Workers |-> NoKey]
  /\ failed = [w \in Workers |-> {}]
  /\ objects_processed = [w \in Workers |-> 0]
  /\ utcnow = [w \in Workers |-> NoTime]
  /\ stage_duration = [w \in Workers |-> 0]
  /\ objects_failed = [w \in Workers |-> 0]
  /\ call = NoCall
  /\ fs = BuiltRoot

SpecSub == InitSub /\ [][Next]_vars

\* ------------------------------------------- NVMeStaging on its own
\* test_nvme_staging: a staging area is built and check_capacity() is called
NvmeDisks == { [q |-> q, r |-> r] : q \in {0, MinGb - 1, MinGb, MinGb + 1},
                                     r \in {0, 1, GiB - 1} }

\* NVMeConfig.min_gb: 0 and the default
FloorOptions == {0, MinGb}

InitNvme ==
  /\ disk \in NvmeDisks
  /\ min_gb \in FloorOptions
  /\ checked = NoCheck
  /\ s3 = [b \in Buckets |-> EmptyBucket]
  /\ now = 0
  /\ config = [w \in Workers |-> Off]
  /\ pc = [w \in Workers |-> "off"]
  /\ new_objects = [w \in Workers |-> <<>>]
  /\ exit = [w \in Workers |-> "none"]
  /\ processed_keys = [w \in Workers |-> {}]
  /\ idx = [w \in Workers |-> 1]
  /\ cur = [w \in Workers |-> NoKey]
  /\ vidx = [w \in Workers |-> 1]
  /\ results = [w \in Workers |-> <<>>]
  /\ result = [w \in Workers |-> None]
  /\ all_results = [w \in Workers |-> <<>>]
  /\ nvme = [w \in Workers |-> EmptyStaging]
  /\ crashed = [w \in Workers |-> NoKey]
  /\ failed = [w \in Workers |-> {}]
  /\ objects_processed = [w \in Workers |-> 0]
  /\ utcnow = [w \in Workers |-> NoTime]
  /\ stage_duration = [w \in Workers |-> 0]
  /\ objects_failed = [w \in Workers |-> 0]
  /\ call = NoCall
  /\ fs = BuiltRoot

CheckCapacityCall ==
  /\ checked' = [called |-> TRUE, disk |-> disk, floor |-> min_gb,
                  result |-> check_capacity(disk, min_gb)]
  /\ UNCHANGED <<s3, now, disk, min_gb, config, pc, exit, processed_keys,
                 new_objects, idx, cur, vidx, results, result, all_results,
                 nvme, crashed, failed, objects_processed, utcnow,
                 stage_duration, objects_failed, call, fs>>

DiskSet ==
  /\ disk' \in NvmeDisks \ {disk}
  /\ UNCHANGED <<s3, now, min_gb, checked, config, pc, exit, processed_keys,
                 new_objects, idx, cur, vidx, results, result, all_results,
                 nvme, crashed, failed, objects_processed, utcnow,
                 stage_duration, objects_failed, call, fs>>

NextNvme == CheckCapacityCall \/ DiskSet

SpecNvme == InitNvme /\ [][NextNvme]_vars

\* ------------------------------------- two workers of the same stage
\* two stage 2 processes in polling mode on the same dataset and source
\* prefix, each with its own staging directory
TwoConfig == [stage |-> "2", mode |-> "poll", sizes |-> <<"1080p", "720p">>, keys |-> <<>>]

InitTwo ==
  /\ config = [w \in Workers |-> TwoConfig]
  /\ s3 \in { SeedStore("2", src) : src \in { {KeyA("2"), KeyB("2")},
                                                {KeyA("2"), KeyNotes("2")} } }
  /\ pc = [w \in Workers |-> Entry(TwoConfig)]
  /\ new_objects = [w \in Workers |-> <<>>]
  /\ now = 0
  /\ disk = AtFloor
  /\ min_gb = MinGb
  /\ checked = NoCheck
  /\ exit = [w \in Workers |-> "none"]
  /\ processed_keys = [w \in Workers |-> {}]
  /\ idx = [w \in Workers |-> 1]
  /\ cur = [w \in Workers |-> NoKey]
  /\ vidx = [w \in Workers |-> 1]
  /\ results = [w \in Workers |-> <<>>]
  /\ result = [w \in Workers |-> None]
  /\ all_results = [w \in Workers |-> <<>>]
  /\ nvme = [w \in Workers |-> EmptyStaging]
  /\ crashed = [w \in Workers |-> NoKey]
  /\ failed = [w \in Workers |-> {}]
  /\ objects_processed = [w \in Workers |-> 0]
  /\ utcnow = [w \in Workers |-> NoTime]
  /\ stage_duration = [w \in Workers |-> 0]
  /\ objects_failed = [w \in Workers |-> 0]
  /\ call = NoCall
  /\ fs = BuiltRoot

NextTwo ==
  \/ \E w \in Workers :
       \/ PollList(w) \/ CycleEnd(w) \/ CheckProcessed(w)
       \/ Download(w) \/ Body(w) \/ WriteOutput(w) \/ Upload(w)
       \/ Success(w) \/ Except(w) \/ AfterAttempt(w) \/ PublishClock(w)
       \/ Publish(w) \/ Mark(w) \/ Sleep(w)
  \/ Tick

SpecTwo == InitTwo /\ [][NextTwo]_vars

\* ------------------------------------- the staging root on its own
\* a role directory is absent, or present with regular files and
\* subdirectories (each with the files it holds) directly under it
AbsentDir == [present |-> FALSE, files |-> {}, subdirs |-> {}]
DirStates ==
  {AbsentDir} \cup
  { [present |-> TRUE, files |-> f, subdirs |-> d] :
      f \in SUBSET {"a.jpg"},
      d \in { {}, {[name |-> "sub", files |-> {"b.png"}]} } }
RootStates == [Roles -> DirStates]

\* a directory made anew, empty, whatever was there
mkdir_fresh(d) == [present |-> TRUE, files |-> {}, subdirs |-> {}]

\* Path.mkdir(parents=True, exist_ok=True)
mkdir(d) == [d EXCEPT !.present = TRUE]

_ensure_directories(root) == [r \in Roles |-> mkdir(root[r])]

\* everything under the directory removed, subdirectories included
_cleanup_dir_recursive(d) == IF d.present THEN [d EXCEPT !.files = {}, !.subdirs = {}] ELSE d

\* if directory.exists(): unlink every item of iterdir() that is_file()
_cleanup_dir(d) == IF d.present THEN [d EXCEPT !.files = {}] ELSE d

cleanup_input(root) == [root EXCEPT !["input"] = _cleanup_dir(@)]
cleanup_work(root) == [root EXCEPT !["work"] = _cleanup_dir(@)]
cleanup_output(root) == [root EXCEPT !["output"] = _cleanup_dir(@)]

InitFs ==
  /\ fs \in RootStates
  /\ call = NoCall
  /\ s3 = [b \in Buckets |-> EmptyBucket]
  /\ config = [w \in Workers |-> Off]
  /\ pc = [w \in Workers |-> "off"]
  /\ new_objects = [w \in Workers |-> <<>>]
  /\ now = 0
  /\ disk = AtFloor
  /\ min_gb = MinGb
  /\ checked = NoCheck
  /\ exit = [w \in Workers |-> "none"]
  /\ processed_keys = [w \in Workers |-> {}]
  /\ idx = [w \in Workers |-> 1]
  /\ cur = [w \in Workers |-> NoKey]
  /\ vidx = [w \in Workers |-> 1]
  /\ results = [w \in Workers |-> <<>>]
  /\ result = [w \in Workers |-> None]
  /\ all_results = [w \in Workers |-> <<>>]
  /\ nvme = [w \in Workers |-> EmptyStaging]
  /\ crashed = [w \in Workers |-> NoKey]
  /\ failed = [w \in Workers |-> {}]
  /\ objects_processed = [w \in Workers |-> 0]
  /\ utcnow = [w \in Workers |-> NoTime]
  /\ stage_duration = [w \in Workers |-> 0]
  /\ objects_failed = [w \in Workers |-> 0]

\* NVMeStaging(NVMeConfig(root=...))
Construct ==
  /\ fs' = _ensure_directories(fs)
  /\ call' = [op |-> "NVMeStaging", before |-> fs, after |-> fs']
  /\ UNCHANGED <<s3, now, disk, min_gb, checked, config, pc, exit, processed_keys,
                 new_objects, idx, cur, vidx, results, result, all_results,
                 nvme, crashed, failed, objects_processed, utcnow,
                 stage_duration, objects_failed>>

\* staging.cleanup_input() / cleanup_work() / cleanup_output()
CleanupCall ==
  /\ \E role \in {"input", "work", "output"} :
       /\ fs' = CASE role = "input" -> cleanup_input(fs)
                  [] role = "work" -> cleanup_work(fs)
                  [] role = "output" -> cleanup_output(fs)
       /\ call' = [op |-> "cleanup", role |-> role, before |-> fs, after |-> fs']
  /\ UNCHANGED <<s3, now, disk, min_gb, checked, config, pc, exit, processed_keys,
                 new_objects, idx, cur, vidx, results, result, all_results,
                 nvme, crashed, failed, objects_processed, utcnow,
                 stage_duration, objects_failed>>

NextFs == Construct \/ CleanupCall

SpecFs == InitFs /\ [][NextFs]_vars

\* ------------------------------------------------ Stage2Config sizes
\* A size string is a sequence of pieces: the three names, two digits, and
\* the characters "x", "," and " ".
SizePieces == {"1080p", "720p", "480p", "8", "6", "x", ",", " "}
DigitRuns == {"8", "6"}
SizeStrings == UNION { [1..n -> SizePieces] : n \in 0..MaxSizesLen }

\* the value of a digit, and of a digit appended to a number
DigitValue(piece) == IF piece = "8" THEN 8 ELSE 6
RECURSIVE DigitsValue(_)
DigitsValue(str) ==
  IF str = <<>> THEN 0
  ELSE DigitsValue(SubSeq(str, 1, Len(str) - 1)) * 10 + DigitValue(str[Len(str)])

\* str.split(sep)
RECURSIVE split(_, _)
split(str, sep) ==
  IF \A i \in 1..Len(str) : str[i] # sep THEN << str >>
  ELSE LET i == CHOOSE j \in 1..Len(str) :
                  str[j] = sep /\ \A h \in 1..(j - 1) : str[h] # sep
       IN << SubSeq(str, 1, i - 1) >> \o split(SubSeq(str, i + 1, Len(str)), sep)

\* str.strip()
RECURSIVE strip(_)
strip(str) ==
  IF str = <<>> THEN str
  ELSE IF str[1] = " " THEN strip(Tail(str))
  ELSE IF str[Len(str)] = " " THEN strip(SubSeq(str, 1, Len(str) - 1))
  ELSE str

\* int(str): the number, or ValueError when the text between the surrounding
\* blanks is not a run of digits
int(str) ==
  LET text == strip(str)
  IN IF text # <<>> /\ \A i \in 1..Len(text) : text[i] \in DigitRuns
     THEN [raised |-> "none", value |-> DigitsValue(text)]
     ELSE [raised |-> "ValueError", value |-> 0]

Variant(name, w, h) == [variant_name |-> name, target_w |-> w, target_h |-> h]

\* one turn of the loop of _parse_sizes: what it appends for one piece of the
\* split, or the exception of int()
parse_size(piece) ==
  LET size == strip(piece) IN
  IF size = <<"1080p">> THEN [raised |-> "none", value |-> << Variant(<<"1080p">>, 1920, 1080) >>]
  ELSE IF size = <<"720p">> THEN [raised |-> "none", value |-> << Variant(<<"720p">>, 1280, 720) >>]
  ELSE IF size = <<"480p">> THEN [raised |-> "none", value |-> << Variant(<<"480p">>, 854, 480) >>]
  ELSE IF \E i \in 1..Len(size) : size[i] = "x"
       THEN LET parts == split(size, "x") IN
            IF Len(parts) = 2
            THEN LET w == int(parts[1])
                     h == int(parts[2])
                 IN IF w.raised # "none" THEN [raised |-> w.raised, value |-> <<>>]
                    ELSE IF h.raised # "none" THEN [raised |-> h.raised, value |-> <<>>]
                    ELSE [raised |-> "none", value |-> << Variant(size, w.value, h.value) >>]
            ELSE [raised |-> "none", value |-> <<>>]
  ELSE [raised |-> "none", value |-> <<>>]

\* sizes.append in the reverse order
RECURSIVE parse_pieces_reversed(_)
parse_pieces_reversed(pieces) ==
  IF pieces = <<>> THEN [raised |-> "none", value |-> <<>>]
  ELSE LET rest == parse_pieces_reversed(SubSeq(pieces, 1, Len(pieces) - 1))
           last == parse_size(pieces[Len(pieces)])
       IN IF rest.raised # "none" THEN rest
          ELSE IF last.raised # "none" THEN last
          ELSE [raised |-> "none", value |-> last.value \o rest.value]

\* the loop over sizes_str.split(","): the list after the last piece, or the
\* first exception
RECURSIVE parse_pieces(_)
parse_pieces(pieces) ==
  IF pieces = <<>> THEN [raised |-> "none", value |-> <<>>]
  ELSE LET rest == parse_pieces(SubSeq(pieces, 1, Len(pieces) - 1))
           last == parse_size(pieces[Len(pieces)])
       IN IF rest.raised # "none" THEN rest
          ELSE IF last.raised # "none" THEN last
          ELSE [raised |-> "none", value |-> rest.value \o last.value]

_parse_sizes(sizes_str) == parse_pieces(split(sizes_str, ","))

\* os.getenv("NORMALIZE_SIZES") or --sizes: any size string
InitSizes ==
  /\ call \in { [op |-> "getenv", sizes_str |-> str] : str \in SizeStrings }
  /\ s3 = [b \in Buckets |-> EmptyBucket]
  /\ fs = BuiltRoot
  /\ config = [w \in Workers |-> Off]
  /\ pc = [w \in Workers |-> "off"]
  /\ new_objects = [w \in Workers |-> <<>>]
  /\ now = 0
  /\ disk = AtFloor
  /\ min_gb = MinGb
  /\ checked = NoCheck
  /\ exit = [w \in Workers |-> "none"]
  /\ processed_keys = [w \in Workers |-> {}]
  /\ idx = [w \in Workers |-> 1]
  /\ cur = [w \in Workers |-> NoKey]
  /\ vidx = [w \in Workers |-> 1]
  /\ results = [w \in Workers |-> <<>>]
  /\ result = [w \in Workers |-> None]
  /\ all_results = [w \in Workers |-> <<>>]
  /\ nvme = [w \in Workers |-> EmptyStaging]
  /\ crashed = [w \in Workers |-> NoKey]
  /\ failed = [w \in Workers |-> {}]
  /\ objects_processed = [w \in Workers |-> 0]
  /\ utcnow = [w \in Workers |-> NoTime]
  /\ stage_duration = [w \in Workers |-> 0]
  /\ objects_failed = [w \in Workers |-> 0]

ParseSizes ==
  /\ call.op = "getenv"
  /\ LET outcome == _parse_sizes(call.sizes_str)
     IN call' = [op |-> "_parse_sizes", sizes_str |-> call.sizes_str,
                 raised |-> outcome.raised, value |-> outcome.value]
  /\ UNCHANGED <<s3, now, disk, min_gb, checked, config, pc, exit, processed_keys,
                 new_objects, idx, cur, vidx, results, result, all_results,
                 nvme, crashed, failed, objects_processed, utcnow,
                 stage_duration, objects_failed, fs>>

NextSizes == ParseSizes

SpecSizes == InitSizes /\ [][NextSizes]_vars

\* ------------------------------------- the manifest store on its own
\* test_manifest_publish: a ManifestStore and its S3Client over the
\* manifest bucket, called for stage 1 of the default dataset
TestObjects ==
  { << Descriptor("1", KeyA("1"), Plan1(KeyA("1"))[1]) >>,
    << Descriptor("1", KeyB("1"), Plan1(KeyB("1"))[1]) >> }
HeadFaults == {"none", "ClientError", "EndpointConnectionError"}

InitStore ==
  /\ s3 = [b \in Buckets |-> EmptyBucket]
  /\ call = NoCall
  /\ fs = BuiltRoot
  /\ config = [w \in Workers |-> Off]
  /\ pc = [w \in Workers |-> "off"]
  /\ new_objects = [w \in Workers |-> <<>>]
  /\ now = 0
  /\ disk = AtFloor
  /\ min_gb = MinGb
  /\ checked = NoCheck
  /\ exit = [w \in Workers |-> "none"]
  /\ processed_keys = [w \in Workers |-> {}]
  /\ idx = [w \in Workers |-> 1]
  /\ cur = [w \in Workers |-> NoKey]
  /\ vidx = [w \in Workers |-> 1]
  /\ results = [w \in Workers |-> <<>>]
  /\ result = [w \in Workers |-> None]
  /\ all_results = [w \in Workers |-> <<>>]
  /\ nvme = [w \in Workers |-> EmptyStaging]
  /\ crashed = [w \in Workers |-> NoKey]
  /\ failed = [w \in Workers |-> {}]
  /\ objects_processed = [w \in Workers |-> 0]
  /\ utcnow = [w \in Workers |-> NoTime]
  /\ stage_duration = [w \in Workers |-> 0]
  /\ objects_failed = [w \in Workers |-> 0]

\* everything a library call of the test leaves alone
StoreCallFrame ==
  UNCHANGED <<now, disk, min_gb, checked, config, pc, exit, processed_keys,
              new_objects, idx, cur, vidx, results, result, all_results,
              nvme, crashed, failed, objects_processed, utcnow,
              stage_duration, objects_failed, fs>>

MarkProcessedCall ==
  /\ \E k \in {KeyA("1"), KeyB("1")} :
       /\ s3' = mark_processed(s3, DatasetId, "1", k, now)
       /\ call' = [op |-> "mark_processed", key |-> k, before |-> s3, after |-> s3']
  /\ StoreCallFrame

IsProcessedCall ==
  /\ \E k \in {KeyA("1"), KeyB("1")} :
       call' = [op |-> "is_processed", key |-> k, before |-> s3, after |-> s3,
                value |-> is_processed(s3, DatasetId, "1", k),
                requests |-> is_processed_requests(s3, DatasetId, "1", k)]
  /\ UNCHANGED s3
  /\ StoreCallFrame

ObjectExistsCall ==
  /\ \E k \in {KeyA("1"), KeyB("1")} : \E fault \in HeadFaults :
       LET key == MarkerKey(DatasetId, "1", k)
           outcome == object_exists(s3, ManifestBucket, key, fault)
       IN call' = [op |-> "object_exists", bucket |-> ManifestBucket, key |-> key,
                   before |-> s3, after |-> s3, fault |-> fault,
                   raised |-> outcome.raised, value |-> outcome.value]
  /\ UNCHANGED s3
  /\ StoreCallFrame

PublishManifestCall ==
  /\ \E objects \in TestObjects :
       /\ s3' = publish_manifest(s3, DatasetId, "1", objects, now, now)
       /\ call' = [op |-> "publish_manifest", before |-> s3, after |-> s3',
                    value |-> publish_manifest_uri(DatasetId, "1", now),
                    requests |-> publish_manifest_requests(DatasetId, "1", now)]
  /\ StoreCallFrame

\* time passes between the calls of the test
TickStore ==
  /\ now < MaxClock
  /\ now' = now + 1
  /\ UNCHANGED <<s3, disk, min_gb, checked, config, pc, exit, processed_keys,
                 new_objects, idx, cur, vidx, results, result, all_results,
                 nvme, crashed, failed, objects_processed, utcnow,
                 stage_duration, objects_failed, call, fs>>

NextStore ==
  \/ MarkProcessedCall \/ IsProcessedCall \/ ObjectExistsCall
  \/ PublishManifestCall \/ TickStore

SpecStore == InitStore /\ [][NextStore]_vars

\* ------------------------------------------ a supervised poll process
\* one stage 1 or stage 2 process in polling mode that keeps running: the
\* interpreter takes the next step of the loop whenever there is one, and a
\* supervisor starts the process again whenever it has ended
LiveConfigs ==
  { [stage |-> "1", mode |-> "poll", sizes |-> <<>>, keys |-> <<>>],
    [stage |-> "2", mode |-> "poll", sizes |-> <<"720p">>, keys |-> <<>>] }

InitLive ==
  /\ \E c \in LiveConfigs :
       \E src \in { {KeyA(c.stage), KeyB(c.stage)}, {KeyA(c.stage), KeyNotes(c.stage)} } :
         /\ config = [w \in Workers |-> IF w = "w1" THEN c ELSE Off]
         /\ s3 = SeedStore(c.stage, src)
  /\ pc = [w \in Workers |-> IF w = "w1" THEN "list" ELSE "off"]
  /\ new_objects = [w \in Workers |-> <<>>]
  /\ now = 0
  /\ disk = AtFloor
  /\ min_gb = MinGb
  /\ checked = NoCheck
  /\ exit = [w \in Workers |-> "none"]
  /\ processed_keys = [w \in Workers |-> {}]
  /\ idx = [w \in Workers |-> 1]
  /\ cur = [w \in Workers |-> NoKey]
  /\ vidx = [w \in Workers |-> 1]
  /\ results = [w \in Workers |-> <<>>]
  /\ result = [w \in Workers |-> None]
  /\ all_results = [w \in Workers |-> <<>>]
  /\ nvme = [w \in Workers |-> EmptyStaging]
  /\ crashed = [w \in Workers |-> NoKey]
  /\ failed = [w \in Workers |-> {}]
  /\ objects_processed = [w \in Workers |-> 0]
  /\ utcnow = [w \in Workers |-> NoTime]
  /\ stage_duration = [w \in Workers |-> 0]
  /\ objects_failed = [w \in Workers |-> 0]
  /\ call = NoCall
  /\ fs = BuiltRoot

\* a step of the running process
ProgramStep(w) ==
  \/ PollList(w) \/ CycleEnd(w) \/ CheckProcessed(w)
  \/ Download(w) \/ Body(w) \/ WriteOutput(w) \/ Upload(w)
  \/ Success(w) \/ Except(w) \/ AfterAttempt(w) \/ PublishClock(w)
  \/ Publish(w) \/ Mark(w) \/ Sleep(w)

NextLive ==
  \E w \in Workers : ProgramStep(w) \/ Kill(w) \/ Restart(w)

SpecLive ==
  /\ InitLive /\ [][NextLive]_vars
  /\ \A w \in Workers : WF_vars(ProgramStep(w)) /\ WF_vars(Restart(w))

\* ------------------------------------------------------------- properties
Active == { w \in Workers : config[w].mode # "off" }
SourceUniverse(s) == { KeyA(s), KeyB(s), KeyNotes(s) }
Markers == KeysOf(s3, ManifestBucket)
Marked(w, k) == MarkerKey(DatasetId, StageOf(w), k) \in Markers
OutputsOf(w, k) == OutputKeys(StageOf(w), k, config[w].sizes)
DestKeys(w) == KeysOf(s3, DestBucket(StageOf(w)))
Listed(w) == { k \in KeysOf(s3, SourceBucket(StageOf(w))) :
                 HasPrefix(k, <<SourcePrefix(StageOf(w))>>) /\ AcceptedExtension(k) }
Ahead(w, k) == \E j \in idx[w]..Len(new_objects[w]) : new_objects[w][j] = k

TypeOK ==
  /\ now \in 0..MaxClock
  /\ disk \in DiskSamples
  /\ \A w \in Workers : pc[w] \in {"off", "stopped", "list", "loop", "download",
        "body", "write", "upload", "success", "except", "after", "publish",
        "put", "mark", "sleep"}


\* C1: is_processed(d, s, k) is true if and only if the marker of (d, s, k)
\* exists in the manifest bucket; after mark_processed(d, s, k) it is true.
C1_IsProcessedIffMarker ==
  \A w \in Active : \A k \in SourceUniverse(StageOf(w)) :
    is_processed(s3, DatasetId, StageOf(w), k) <=> Marked(w, k)

\* C2: in a poll loop, once the marker of k is written no later cycle calls
\* process_object for k, in the same process or after a restart.
C2_NoReprocessAfterMark ==
  [][\A w \in Active :
       (Poll(w) /\ pc[w] = "loop" /\ pc'[w] = "download") => ~Marked(w, cur'[w])]_vars

\* C3: the marker of k is written only after the attempt for k has uploaded
\* every output; no state has a marker of k while an output of k is missing
\* from the destination bucket.
C3_MarkerAfterOutputs ==
  \A w \in Active :
    /\ pc[w] \in {"publish", "put", "mark"} =>
         /\ OutputsOf(w, cur[w]) # {}
         /\ { results[w][i].output_uri[2] : i \in 1..Len(results[w]) } = OutputsOf(w, cur[w])
         /\ OutputsOf(w, cur[w]) \subseteq DestKeys(w)
    /\ \A k \in SourceUniverse(StageOf(w)) :
         Marked(w, k) => OutputsOf(w, k) # {} /\ OutputsOf(w, k) \subseteq DestKeys(w)

C3_Witness ==
  \E w \in Active : \E k \in SourceUniverse(StageOf(w)) :
    Marked(w, k) /\ Cardinality(OutputsOf(w, k)) = 2

\* C4: a poll process terminated after the uploads of O and before the marker
\* of O is written attempts O again after the restart, before the cycle ends,
\* and the outputs of O stay in place (they are overwritten, never missing).
C4_CrashReprocess ==
  \A w \in Active :
    crashed[w] # NoKey =>
      /\ OutputsOf(w, crashed[w]) \subseteq DestKeys(w)
      /\ pc[w] \in {"stopped", "list"} \/ Ahead(w, crashed[w])
      /\ pc[w] = "list" => crashed[w] \in Listed(w) \ processed_keys[w]

C4_Witness ==
  \E w \in Active :
    /\ crashed[w] # NoKey /\ cur[w] = crashed[w] /\ pc[w] = "upload"
    /\ exit[w] = "killed"
    /\ TaskOf(w).key \in DestKeys(w)

\* C5: in poll mode a key whose attempt failed in one cycle is attempted again
\* by the same process in the next cycle, while it is still listed.
C5_FailedRetriedNextCycle ==
  \A w \in Active :
    (Poll(w) /\ pc[w] = "loop") =>
      \A k \in failed[w] : k \in Listed(w) => k \in Range(new_objects[w])

\* C6: when the attempt for key c fails no marker is written for c and the
\* loop goes on to the next key of the cycle's listing.
C6_FailureIsolated ==
  [][\A w \in Active :
       /\ (pc[w] = "except" /\ pc'[w] \notin {"except", "stopped"}) =>
            /\ pc'[w] = "after" /\ cur'[w] = cur[w] /\ cur[w] \in failed'[w]
            /\ s3' = s3
       /\ (pc[w] = "after" /\ cur[w] \in failed[w] /\ pc'[w] \notin {"after", "stopped"}) =>
            /\ pc'[w] = "loop" /\ idx'[w] = idx[w] + 1
            /\ new_objects'[w] = new_objects[w]
            /\ s3' = s3]_vars

C6_Witness ==
  \E w \in Active :
    /\ failed[w] # {} /\ pc[w] = "download" /\ cur[w] \notin failed[w]
    /\ \E k \in failed[w] : \E i \in 1..(idx[w] - 1) : new_objects[w][i] = k
    /\ \A k \in failed[w] : ~Marked(w, k)

\* C7: an object is downloaded into input only after check_capacity() returned
\* true in the same attempt; with free space below the floor nothing is staged.
C7_DownloadOnlyWithCapacity ==
  [][\A w \in Active :
       (pc[w] = "download" /\ pc'[w] = "body") => check_capacity(disk, min_gb)]_vars

\* C8: check_capacity() is true if and only if the free space is at least
\* min_gb GiB: false below the floor, true exactly at the floor.
C8_CapacityIffAtLeastFloor ==
  checked.called => (checked.result <=> checked.disk.q >= checked.floor)

C8_Witness ==
  /\ checked.called /\ checked.result
  /\ checked.disk = [q |-> MinGb, r |-> 0] /\ checked.floor = MinGb

\* C9: when process_object has returned, on success or failure, the input
\* directory holds no file of that object.
C9_InputRemoved ==
  \A w \in Active :
    (Running(w) /\ ~InAttempt(w) /\ cur[w] # NoKey) =>
      PathName(cur[w]) \notin nvme[w].input

C9_Witness ==
  \E w \in Active :
    /\ pc[w] = "after" /\ cur[w] \in failed[w]
    /\ nvme[w].output # {}
    /\ PathName(cur[w]) \notin nvme[w].input

\* C10: no staging file of an attempt exists when the next attempt begins or
\* when the cycle ends: the staging area is empty between attempts.
C10_StagingEmptyBetweenAttempts ==
  \A w \in Active :
    (exit[w] = "none" /\ pc[w] \in {"download", "sleep"}) => nvme[w] = EmptyStaging

\* C11: in poll mode the end of every cycle is followed by the sleep and then
\* by a new listing of the source prefix: the loop never ends by itself.
C11_CycleEndSleepsThenLists ==
  [][\A w \in Active :
       /\ (Poll(w) /\ pc[w] = "loop" /\ idx[w] > Len(new_objects[w])
             /\ exit'[w] # "killed" /\ pc'[w] # pc[w]) => pc'[w] = "sleep"
       /\ (Poll(w) /\ pc[w] = "sleep" /\ exit'[w] # "killed" /\ pc'[w] # pc[w])
            => pc'[w] = "list"]_vars

\* C12: in poll mode a store failure of publish_manifest or mark_processed for
\* one key does not leave poll_for_work: the loop goes on with the next key.
C12_StoreFailureCaught ==
  [][\A w \in Active :
       (Poll(w) /\ pc[w] \in {"put", "mark"} /\ pc'[w] = "stopped")
         => exit'[w] = "killed"]_vars

\* C13: when mark_processed fails for k, k is not added to the seen set and
\* is not counted as processed: the counter of processed objects counts only
\* the keys whose marker write was confirmed.
C13_UnconfirmedNotCounted ==
  [][\A w \in Active :
       (Poll(w) /\ StageOf(w) = "1" /\ pc[w] = "mark"
          /\ pc'[w] = "stopped" /\ exit'[w] = "raised")
         => /\ cur[w] \notin processed_keys'[w]
            /\ objects_processed[w] = Cardinality(processed_keys[w] \ failed[w])]_vars

Manifests(s) ==
  { k \in KeysOf(s3, ManifestBucket) : HasPrefix(k, ManifestPrefix(DatasetId, s)) }
Publishes(w) == pc[w] = "put" /\ pc'[w] = "mark"

\* C14: after publish_manifest calls for the same (dataset, stage) at times
\* t1 < t2, also within one wall-clock second, get_latest_manifest returns the
\* manifest published at t2, until the next publish.
C14_LatestIsLastPublished ==
  [][/\ \A w \in Active :
          Publishes(w) =>
            LET latest == get_latest_manifest(s3', DatasetId, StageOf(w))
            IN /\ latest # None
               /\ latest.objects = result[w].items
               /\ latest.timestamp = utcnow[w]
     /\ (\A w \in Active : ~Publishes(w)) =>
          \A s \in {"1", "2", "4"} :
            get_latest_manifest(s3', DatasetId, s) = get_latest_manifest(s3, DatasetId, s)]_vars

\* C15: manifests are append-only: every publish_manifest creates an object
\* under a key that did not exist, leaves every earlier manifest as it was
\* and adds one to the number of manifest objects of the (dataset, stage).
C15_ManifestsAppendOnly ==
  [][\A w \in Active :
       Publishes(w) =>
         /\ ManifestKey(DatasetId, StageOf(w), utcnow[w]) \notin Manifests(StageOf(w))
         /\ \A k \in Manifests(StageOf(w)) :
              /\ k \in KeysOf(s3', ManifestBucket)
              /\ s3'[ManifestBucket][k] = s3[ManifestBucket][k]
         /\ Cardinality(Manifests(StageOf(w))') = Cardinality(Manifests(StageOf(w))) + 1]_vars

\* the manifests of the stage that hold an output descriptor of source key k
ManifestsWith(store, s, k) ==
  { m \in { key \in KeysOf(store, ManifestBucket) :
              HasPrefix(key, ManifestPrefix(DatasetId, s)) } :
      LET objects == json_loads(get_object(store, ManifestBucket, m)).objects
      IN \E i \in 1..Len(objects) : objects[i].source_uri = <<SourceBucket(s), k>> }

\* C16: in every stage's poll loop, when the loop is done with a key that was
\* processed successfully, a manifest holding the key's output descriptor has
\* been published for the (dataset, stage).
C16_ManifestForProcessedKey ==
  [][\A w \in Active :
       (Poll(w) /\ pc[w] \in {"after", "mark"} /\ pc'[w] = "loop" /\ Truthy(result[w]))
         => ManifestsWith(s3', StageOf(w), cur[w]) # {}]_vars

\* nothing under the source prefix has an accepted extension
NoCandidates(w) ==
  KeysOf(s3, SourceBucket(StageOf(w))) \subseteq {KeyNotes(StageOf(w))}

\* C17: a poll cycle over a source prefix that is empty or holds no key of an
\* accepted extension lists no candidate, leaves the manifest bucket and the
\* destination bucket as they are, and then sleeps until the next cycle.
C17_EmptyCycleWritesNothing ==
  [][\A w \in Active :
       (Poll(w) /\ NoCandidates(w) /\ exit'[w] # "killed") =>
         /\ (pc[w] = "list" /\ pc'[w] = "loop") =>
              new_objects'[w] = <<>> /\ s3' = s3
         /\ (pc[w] = "loop" /\ pc'[w] # "loop") =>
              pc'[w] = "sleep" /\ s3' = s3
         /\ (pc[w] = "sleep" /\ pc'[w] # "sleep") =>
              pc'[w] = "list" /\ s3' = s3]_vars

\* C18: in batch mode no failure while handling a key (download, stage body,
\* upload, manifest publish, marker write) leaves run_once as an exception:
\* run_once ends by returning a result list without the failed keys.
C18_BatchNeverRaises ==
  \A w \in Active :
    Batch(w) =>
      /\ exit[w] # "raised"
      /\ (pc[w] = "stopped" /\ exit[w] = "returned") =>
           \A k \in failed[w] : \A i \in 1..Len(all_results[w]) :
             all_results[w][i].source_uri # <<SourceBucket(StageOf(w)), k>>

\* the objects of the manifest bucket under the marker prefix of the stage
MarkerObjects(s) ==
  { m \in KeysOf(s3, ManifestBucket) :
      HasPrefix(m, <<"processed/", DatasetId, "/stage_", s, "/">>) }

\* C19: two workers of one stage running concurrently leave the remote state
\* a single worker leaves: one marker object (empty, under the marker key) per
\* processed key and no other, every output of a marked key in place, and no
\* output object that is not the output of a listed key with that key's content.
C19_TwoWorkersSameRemoteState ==
  \A w \in Active :
    /\ MarkerObjects(StageOf(w)) \subseteq
         { MarkerKey(DatasetId, StageOf(w), k) : k \in Listed(w) }
    /\ \A m \in MarkerObjects(StageOf(w)) : get_object(s3, ManifestBucket, m) = <<>>
    /\ \A k \in Listed(w) :
         Marked(w, k) => OutputsOf(w, k) \subseteq DestKeys(w)
    /\ \A o \in DestKeys(w) :
         \E k \in Listed(w) :
           /\ o \in OutputsOf(w, k)
           /\ get_object(s3, DestBucket(StageOf(w)), o) = k

C19_Witness ==
  /\ Cardinality(Active) = 2
  /\ \E k \in Listed("w1") :
       /\ Marked("w1", k)
       /\ \A w \in Active :
            /\ pc[w] = "loop" /\ cur[w] = k /\ k \notin failed[w]
            /\ objects_processed[w] = 1

\* the keys of a cycle's new_objects on which the loop calls process_object
Invoked(s, keys) ==
  { k \in Range(keys) : ~is_processed(s3, DatasetId, s, k) }

\* C20: the stage 1 poll loop calls the stage body on the same keys in every
\* cycle as the same loop without its seen set (processed_keys always empty):
\* the marker alone decides what is skipped.
C20_SeenSetNotReliedOn ==
  [][\A w \in Active :
       (Poll(w) /\ StageOf(w) = "1" /\ pc[w] = "list" /\ pc'[w] = "loop") =>
         LET objects == list_objects(s3, SourceBucket("1"), <<SourcePrefix("1")>>)
         IN Invoked("1", new_objects'[w]) = Invoked("1", NewObjects1(objects, {}))]_vars

\* a store operation or the stage body fails, or the process is terminated
\* from outside (the end of the process at its own sleep statement is neither)
Fault ==
  \E w \in Workers :
    \/ pc[w] # "except" /\ pc'[w] = "except"
    \/ pc[w] \notin {"stopped", "sleep"} /\ pc'[w] = "stopped"

\* C21: in poll mode, with the process kept running and restarted whenever it
\* ends, every key of an accepted extension under the source prefix is
\* eventually marked processed once failures and terminations have stopped.
C21_EventuallyMarked ==
  (<>[][~Fault]_vars) =>
    \A s \in {"1", "2"} : \A k \in {KeyA(s), KeyB(s)} :
      (StageOf("w1") = s /\ k \in Listed("w1")) ~> Marked("w1", k)

\* C22: is_processed is an existence check of the one derived marker key:
\* a single head request for that key, however many markers exist, and never
\* a listing of the marker prefix.
C22_IsProcessedSingleLookup ==
  call.op = "is_processed" =>
    call.requests = << [op |-> "head_object", bucket |-> ManifestBucket,
                        key |-> MarkerKey(DatasetId, "1", call.key)] >>

\* C23: object_exists returns false, without raising, when the key is not
\* found and true when the key exists, and leaves the store as it was.
C23_ExistsIffPresent ==
  (call.op = "object_exists" /\ call.fault \in {"none", "ClientError"}) =>
    /\ call.raised = "none"
    /\ call.value <=> call.key \in KeysOf(call.before, call.bucket)
    /\ call.after = call.before

\* C24: cleanup of a role deletes the regular files directly under the
\* role directory and nothing else: its subdirectories with their contents
\* and the other role directories stay, and an absent or empty role directory
\* is left as it is.
C24_CleanupFilesOnly ==
  call.op = "cleanup" =>
    /\ call.after[call.role].files = {}
    /\ call.after[call.role].subdirs = call.before[call.role].subdirs
    /\ call.after[call.role].present = call.before[call.role].present
    /\ \A r \in Roles \ {call.role} : call.after[r] = call.before[r]
    /\ (call.before[call.role].files = {}) => call.after = call.before

C24_Witness ==
  /\ call.op = "cleanup" /\ call.role = "work"
  /\ call.before["work"].files # {} /\ call.before["work"].subdirs # {}
  /\ call.before["input"].files # {} /\ ~call.before["output"].present
  /\ call.after["work"].subdirs # {} /\ fs = call.after

\* C25: publish_manifest sends exactly one put_object, to the manifest bucket
\* under manifests/{dataset_id}/stage_{stage}/{timestamp}.json, writes nothing
\* else, and returns s3://{bucket}/{key} for exactly that key.
C25_PublishOnePut ==
  call.op = "publish_manifest" =>
    /\ Len(call.requests) = 1
    /\ LET put == call.requests[1] IN
         /\ put.op = "put_object" /\ put.bucket = ManifestBucket
         /\ Len(put.key) = 7
         /\ SubSeq(put.key, 1, 5) = <<"manifests/", DatasetId, "/stage_", "1", "/">>
         /\ put.key[7] = ".json"
         /\ call.value = <<"s3://", put.bucket, "/">> \o put.key
         /\ put.key \in KeysOf(call.after, put.bucket)
         /\ \A b \in Buckets : \A k \in KeysOf(call.after, b) \ {put.key} :
              k \in KeysOf(call.before, b) /\ call.after[b][k] = call.before[b][k]
         /\ \A b \in Buckets : KeysOf(call.before, b) \subseteq KeysOf(call.after, b)

C25_Witness ==
  /\ call.op = "publish_manifest"
  /\ Cardinality(KeysOf(call.after, ManifestBucket)) = 3
  /\ Cardinality(KeysOf(call.before, ManifestBucket)) = 2
  /\ call.value = <<"s3://", ManifestBucket, "/", "manifests/", DatasetId,
                    "/stage_", "1", "/", Timestamp(MaxClock), ".json">>

\* C26: constructing NVMeStaging on a root leaves the four role directories
\* present, and files and subdirectories already there as they were;
\* constructing it again changes nothing.
C26_ConstructEnsuresRoles ==
  call.op = "NVMeStaging" =>
    /\ \A r \in Roles :
         /\ call.after[r].present
         /\ call.after[r].files = call.before[r].files
         /\ call.after[r].subdirs = call.before[r].subdirs
    /\ _ensure_directories(call.after) = call.after

C26_Witness ==
  /\ call.op = "NVMeStaging"
  /\ \A r \in Roles : call.before[r].present
  /\ call.before["input"].files # {} /\ call.before["cache"].subdirs # {}
  /\ call.after = call.before /\ fs = call.after

\* C27: _parse_sizes keeps the order of the comma-separated tokens: 1080p,
\* 720p and 480p give (name, 1920, 1080), (name, 1280, 720) and
\* (name, 854, 480), a token WxH gives (token, W, H), and the list has one
\* entry per recognised token and no other entry.
NamedSizes ==
  { Variant(<<"1080p">>, 1920, 1080), Variant(<<"720p">>, 1280, 720),
    Variant(<<"480p">>, 854, 480) }
IsNumber(str) == str # <<>> /\ \A i \in 1..Len(str) : str[i] \in DigitRuns
IsWxH(token) ==
  \E i \in 1..Len(token) :
    /\ token[i] = "x"
    /\ IsNumber(strip(SubSeq(token, 1, i - 1)))
    /\ IsNumber(strip(SubSeq(token, i + 1, Len(token))))
Recognised(token) ==
  (\E v \in NamedSizes : v.variant_name = token) \/ IsWxH(token)
EntryFor(token) ==
  IF \E v \in NamedSizes : v.variant_name = token
  THEN CHOOSE v \in NamedSizes : v.variant_name = token
  ELSE LET i == CHOOSE j \in 1..Len(token) : token[j] = "x"
       IN Variant(token, DigitsValue(strip(SubSeq(token, 1, i - 1))),
                  DigitsValue(strip(SubSeq(token, i + 1, Len(token)))))
TokensOf(str) ==
  LET pieces == split(str, ",") IN [i \in 1..Len(pieces) |-> strip(pieces[i])]
ListingKeys(w) ==
  LET objects == list_objects(s3, SourceBucket(StageOf(w)), <<SourcePrefix(StageOf(w))>>)
  IN [i \in 1..Len(objects) |-> objects[i].Key]
C28_AttemptsInListingOrder ==
  [][\A w \in Active : Poll(w) =>
       /\ (pc[w] = "list" /\ pc'[w] = "loop") =>
            LET Kept(k) == k \in Range(new_objects'[w])
            IN /\ new_objects'[w] = SelectSeq(ListingKeys(w), Kept)
               /\ idx'[w] = 1
       /\ (pc[w] = "loop" /\ pc'[w] = "download") =>
            /\ cur'[w] = new_objects[w][idx[w]]
            /\ idx'[w] = idx[w]
       /\ (pc[w] # "list" /\ pc'[w] # "stopped") =>
            /\ new_objects'[w] = new_objects[w]
            /\ idx'[w] \in {idx[w], idx[w] + 1}]_vars

C28_Witness ==
  \E w \in Active :
    /\ Poll(w) /\ pc[w] = "download" /\ idx[w] = 2
    /\ new_objects[w] = ListingKeys(w)
    /\ new_objects[w] = <<KeyA(StageOf(w)), KeyB(StageOf(w))>>
    /\ cur[w] = KeyB(StageOf(w))

\* C29: in one poll cycle the stage body is entered at most once for a key,
\* whether the attempt succeeds or fails: the key entering an attempt stands
\* at no earlier position of the cycle's list, and the loop returns to its
\* head only with the position moved past the key just attempted.
C29_NoRetryWithinCycle ==
  [][\A w \in Active : Poll(w) =>
       /\ (pc[w] = "loop" /\ pc'[w] = "download") =>
            \A i \in 1..Len(new_objects[w]) :
              new_objects[w][i] = cur'[w] => i = idx[w]
       /\ (pc[w] \notin {"loop", "list"} /\ pc'[w] = "loop") =>
            /\ idx'[w] = idx[w] + 1
            /\ new_objects'[w] = new_objects[w]
            /\ new_objects[w][idx[w]] = cur[w]
       /\ (InAttempt(w) /\ pc'[w] # "stopped") =>
            cur'[w] = cur[w] /\ idx'[w] = idx[w]]_vars

C29_Witness ==
  \E w \in Active :
    /\ Poll(w) /\ pc[w] = "loop" /\ idx[w] = 2 /\ Len(new_objects[w]) = 2
    /\ new_objects[w][1] \in failed[w]
    /\ ~Marked(w, new_objects[w][1])

C31_ListingFailureEndsLoop ==
  [][\A w \in Active : Poll(w) =>
       /\ (pc[w] = "list" /\ pc'[w] # "list") =>
            \/ /\ pc'[w] = "loop"
               /\ new_objects'[w] =
                    NewObjects(StageOf(w),
                               list_objects(s3, SourceBucket(StageOf(w)),
                                            <<SourcePrefix(StageOf(w))>>),
                               processed_keys[w])
               /\ s3' = s3
            \/ /\ pc'[w] = "stopped" /\ exit'[w] \in {"raised", "killed"}
               /\ s3' = s3 /\ nvme' = nvme
               /\ cur'[w] = NoKey /\ new_objects'[w] = <<>>
       /\ (pc[w] = "stopped" /\ exit[w] = "raised" /\ pc'[w] = "stopped") =>
            /\ s3' = s3 /\ nvme' = nvme /\ exit'[w] = "raised"]_vars

\* a stage 1 poll process that ended with an exception although its source
\* prefix holds no key the loop would take: only the listing can have failed
C31_Witness ==
  \E w \in Active :
    /\ Poll(w) /\ StageOf(w) = "1"
    /\ pc[w] = "stopped" /\ exit[w] = "raised"
    /\ KeyNotes("1") \in KeysOf(s3, SourceBucket("1"))
    /\ KeyA("1") \notin KeysOf(s3, SourceBucket("1"))
    /\ KeysOf(s3, ManifestBucket) = {} /\ KeysOf(s3, DestBucket("1")) = {}


\* C32: no step of a stage writes, overwrites or deletes an object under the
\* stage's own source bucket and prefix: the source objects are the same
\* after every step, and every upload goes to another bucket or prefix.
SourceObjects(store, s) ==
  LET ks == { k \in KeysOf(store, SourceBucket(s)) : HasPrefix(k, <<SourcePrefix(s)>>) }
  IN [k \in ks |-> store[SourceBucket(s)][k]]
C32_SourceNeverWritten ==
  [][\A w \in Active :
       /\ SourceObjects(s3', StageOf(w)) = SourceObjects(s3, StageOf(w))
       /\ (pc[w] = "upload" /\ s3' # s3) =>
            ~(/\ TaskOf(w).bucket = SourceBucket(StageOf(w))
              /\ HasPrefix(TaskOf(w).key, <<SourcePrefix(StageOf(w))>>))]_vars

C32_Witness ==
  \E w \in Active :
    /\ Marked(w, KeyA(StageOf(w))) /\ Marked(w, KeyB(StageOf(w)))
    /\ OutputKeys(StageOf(w), KeyA(StageOf(w)), config[w].sizes)
         \subseteq KeysOf(s3, DestBucket(StageOf(w)))
    /\ OutputKeys(StageOf(w), KeyA(StageOf(w)), config[w].sizes) # {}
    /\ SourceObjects(s3, StageOf(w)) =
         [k \in {KeyA(StageOf(w)), KeyB(StageOf(w))} |-> [Body |-> k, LastModified |-> 0]]


\* C33: processing a source key again writes the destination keys and the
\* marker key of the first run: whatever was run, and however often, the
\* destination bucket holds no key besides the output keys of the stage's
\* source keys and the manifest bucket no marker besides their marker keys.
AttemptKeys(w) ==
  { k \in KeysOf(s3, SourceBucket(StageOf(w))) : AcceptedExtension(k) }
    \cup Range(config[w].keys)
C33_ReprocessingSameKeys ==
  \A w \in Active :
    LET s == StageOf(w) IN
    /\ KeysOf(s3, DestBucket(s)) \subseteq
         UNION { OutputKeys(s, k, config[w].sizes) : k \in AttemptKeys(w) }
    /\ { m \in KeysOf(s3, ManifestBucket) : Head(m) = "processed/" } \subseteq
         { MarkerKey(DatasetId, s, k) : k \in AttemptKeys(w) }

\* the second run of a key whose first run was cut off between its uploads
\* and its marker has uploaded its outputs again
C33_Witness ==
  \E w \in Active :
    /\ pc[w] = "success" /\ cur[w] # NoKey /\ crashed[w] = cur[w]
    /\ KeysOf(s3, DestBucket(StageOf(w))) =
         OutputKeys(StageOf(w), cur[w], config[w].sizes)
    /\ ~Marked(w, cur[w])


\* C34: run_once filters its key list before processing: it does not enter
\* process_object for a key that already has its processed marker.
C34_BatchFiltersProcessed ==
  [][\A w \in Active :
       (Batch(w) /\ pc[w] = "loop" /\ pc'[w] = "download") =>
         ~Marked(w, cur'[w])]_vars


\* C35: stage 2 takes its candidates from the manifests of stage 1: it enters
\* process_object for a key only if a manifest published for stage 1 of the
\* dataset records that key as an output.
RecordedOutputs(store, s) ==
  UNION { LET objects == json_loads(get_object(store, ManifestBucket, m)).objects
          IN { objects[i].output_uri : i \in 1..Len(objects) } :
          m \in { key \in KeysOf(store, ManifestBucket) :
                    HasPrefix(key, ManifestPrefix(DatasetId, s)) } }
C35_CandidatesFromManifests ==
  [][\A w \in Active :
       (StageOf(w) = "2" /\ pc[w] = "loop" /\ pc'[w] = "download") =>
         <<SourceBucket("2"), cur'[w]>> \in RecordedOutputs(s3, "1")]_vars


\* C36: in stage 2, poll and batch, publish_manifest for a key comes before
\* mark_processed for it: the marker write is reached only from a publish
\* that stored a manifest with the key's descriptors, a marker appears only
\* in the marker write, and a publish that fails writes no marker.
C36_PublishBeforeMark ==
  [][\A w \in Active : StageOf(w) = "2" =>
       /\ (pc[w] # "mark" /\ pc'[w] = "mark") =>
            /\ pc[w] = "put" /\ cur'[w] = cur[w]
            /\ ManifestsWith(s3', "2", cur[w]) # {}
       /\ MarkerObjects("2") # { m \in KeysOf(s3', ManifestBucket) :
                                   HasPrefix(m, <<"processed/", DatasetId, "/stage_", "2", "/">>) } =>
            /\ pc[w] = "mark" /\ pc'[w] = "loop"
            /\ s3' = mark_processed(s3, DatasetId, "2", cur[w], now)
       /\ (pc[w] = "put" /\ pc'[w] \notin {"put", "mark"}) =>
            /\ pc'[w] = "stopped" /\ s3' = s3]_vars

C36_Witness ==
  \E w \in Active :
    /\ StageOf(w) = "2" /\ pc[w] = "loop" /\ cur[w] = KeyA("2")
    /\ Marked(w, KeyA("2"))
    /\ ManifestsWith(s3, "2", KeyA("2")) # {}


\* C37: two different source keys of a stage never share an output, also when
\* they have the same file name under different sub-prefixes: an upload for
\* one key goes to no destination key derived from another source key, the
\* file staged for it has the name of no other source key's file, and no
\* destination object is overwritten with the output of another source key.
C37_DistinctKeysDistinctOutputs ==
  [][\A w \in Active :
       LET s == StageOf(w)
           others == { k \in KeysOf(s3, SourceBucket(s)) : AcceptedExtension(k) } \ {cur[w]}
       IN /\ (pc[w] = "upload" /\ pc'[w] # "except" /\ s3' # s3) =>
               \A k \in others : TaskOf(w).key \notin OutputKeys(s, k, config[w].sizes)
          /\ (pc[w] = "download" /\ pc'[w] = "body") =>
               \A k \in others : PathName(k) # PathName(cur[w])
          /\ \A key \in KeysOf(s3, DestBucket(s)) :
               s3'[DestBucket(s)][key].Body = s3[DestBucket(s)][key].Body]_vars


\* C38: in stage 2 an attempt in which process_object ran to its end without
\* an exception goes on to publish_manifest and mark_processed for the key,
\* for every configured size list, the empty one included: the loop does not
\* go to the next key with the succeeded key left unmarked.
C38_SuccessThenMark ==
  [][\A w \in Active :
       (/\ StageOf(w) = "2" /\ pc[w] = "after" /\ cur[w] \notin failed[w]
        /\ pc'[w] \notin {"after", "stopped"}) =>
         pc'[w] = "publish"]_vars

====
